---- MODULE Spec2Model ----
(***************************************************************************)
(* Model of the TIMO Math training pipeline (train_coreml_models.py) and   *)
(* of the two scripts that patch the question bank.                        *)
(*                                                                         *)
(* Real numbers are fixed-point integers in thousandths: 1.0 is 1000,      *)
(* 0.25 is 250, 0.95 is 950.  The Elo rating, the difficulty tier and the  *)
(* identifiers are plain integers.  A Python dict is a TLA+ record, so     *)
(* `'k' in d` is "k" \in DOMAIN d.  A pandas DataFrame built from a list   *)
(* of dicts is the sequence of its rows; built from the empty list it has  *)
(* no rows and no columns.                                                 *)
(***************************************************************************)
EXTENDS Integers, Sequences, FiniteSets, TLC

VARIABLES
    pc,           \* position of the caller / of main
    file,         \* the question bank: INPUT_DATA_PATH, json_file_path
    questions,    \* what load_question_data returned
    question_df,  \* what preprocess_question_data returned
    response_df,  \* what generate_synthetic_student_data returned
    rng,          \* state of numpy's global generator
    salt,         \* the generator's seeding function, fixed per run
    runs,         \* the generator calls made so far: input and output
    trained,      \* what the trainers computed
    outdir,       \* whether OUTPUT_MODEL_DIR exists
    saved,        \* the model files written, in order
    raised,       \* the exception that ended the run, or "none"
    counts        \* what a patch script counted and printed

vars == <<pc, file, questions, question_df, response_df, rng, salt, runs,
          trained, outdir, saved, raised, counts>>

----------------------------------------------------------------------------
(* Bounds of the model *)

MaxStudents == 3

MaxAnswers == 3

(* Program constants *)

RANDOM_SEED == 42

Min(a, b) == IF a < b THEN a ELSE b

Abs(a) == IF a < 0 THEN 0 - a ELSE a

----------------------------------------------------------------------------
(* Question records: the objects of the `questions` list of the input.     *)

KnownSubjects ==
    {"Logical Thinking", "Arithmetic", "Number Theory", "Geometry", "Combinatorics"}

Subjects == KnownSubjects \cup {"Algebra"}

KnownDifficulties == {"Easy", "Medium", "Hard", "Olympiad"}

Difficulties == KnownDifficulties \cup {"Expert"}

IrtKeys == {"discrimination", "difficulty", "guessing"}

IrtValues(k) ==
    CASE k = "discrimination" -> {500, 2000}
      [] k = "difficulty" -> {-1000, 1000}
      [] k = "guessing" -> {-500, 200}

\* every irt object: any subset of the three keys, each with one of its values
IrtObjects ==
    UNION { { g \in [S -> {-1000, -500, 200, 500, 1000, 2000}] :
                \A k \in S : g[k] \in IrtValues(k) } : S \in SUBSET IrtKeys }

EloValues == {1000, 1500}

\* every parameters object: eloRating and irt each present or not
ParameterObjects ==
    { << >> }
      \cup { [eloRating |-> e] : e \in EloValues }
      \cup { [irt |-> i] : i \in IrtObjects }
      \cup { [eloRating |-> e, irt |-> i] : e \in EloValues, i \in IrtObjects }

BaseRecords ==
    [id : {1}, subject : Subjects, difficulty : Difficulties,
     type : {"multiple-choice", "open-ended"}, content : {[question |-> "2+2=?"]}]

QuestionRecords ==
    BaseRecords \cup { b @@ [parameters |-> p] : b \in BaseRecords, p \in ParameterObjects }

----------------------------------------------------------------------------
(* preprocess_question_data *)

\* the table with Geometry and Number Theory in each other's column
subject_mapping_swapped(s) ==
    CASE s = "Logical Thinking" -> <<1, 0, 0, 0, 0>>
      [] s = "Arithmetic" -> <<0, 1, 0, 0, 0>>
      [] s = "Number Theory" -> <<0, 0, 0, 1, 0>>
      [] s = "Geometry" -> <<0, 0, 1, 0, 0>>
      [] s = "Combinatorics" -> <<0, 0, 0, 0, 1>>
      [] OTHER -> <<0, 0, 0, 0, 0>>

subject_mapping(s) ==
    CASE s = "Logical Thinking" -> <<1, 0, 0, 0, 0>>
      [] s = "Arithmetic" -> <<0, 1, 0, 0, 0>>
      [] s = "Number Theory" -> <<0, 0, 1, 0, 0>>
      [] s = "Geometry" -> <<0, 0, 0, 1, 0>>
      [] s = "Combinatorics" -> <<0, 0, 0, 0, 1>>
      [] OTHER -> <<0, 0, 0, 0, 0>>

\* the table with 0 for a difficulty it does not list
difficulty_mapping_zero(d) ==
    CASE d = "Easy" -> 1
      [] d = "Medium" -> 2
      [] d = "Hard" -> 3
      [] d = "Olympiad" -> 4
      [] OTHER -> 0

difficulty_mapping(d) ==
    CASE d = "Easy" -> 1
      [] d = "Medium" -> 2
      [] d = "Hard" -> 3
      [] d = "Olympiad" -> 4
      [] OTHER -> 2

elo_rating(q) ==
    IF "parameters" \in DOMAIN q /\ "eloRating" \in DOMAIN q.parameters
    THEN q.parameters.eloRating
    ELSE 1200

\* the defaults kept whatever the record holds
irt_param_default(q, k, default) == default

\* irt_params.get(k, default) under the test of line 74
irt_param(q, k, default) ==
    IF "parameters" \in DOMAIN q /\ "irt" \in DOMAIN q.parameters
    THEN IF k \in DOMAIN q.parameters.irt THEN q.parameters.irt[k] ELSE default
    ELSE default

\* the loop body: one feature row per question
PreprocessQuestion(q) ==
    LET subject_vec == subject_mapping(q.subject)
    IN  [id |-> q.id,
         subject_logical |-> subject_vec[1],
         subject_arithmetic |-> subject_vec[2],
         subject_numbertheory |-> subject_vec[3],
         subject_geometry |-> subject_vec[4],
         subject_combinatorics |-> subject_vec[5],
         difficulty |-> difficulty_mapping(q.difficulty),
         is_open_ended |-> IF q.type = "open-ended" THEN 1 ELSE 0,
         question_length |-> Len(q.content.question),
         elo_rating |-> elo_rating(q),
         irt_discrimination |-> irt_param(q, "discrimination", 1000),
         irt_difficulty |-> irt_param(q, "difficulty", 0),
         irt_guessing |-> irt_param(q, "guessing", 250)]

preprocess_question_data(qs) ==
    [i \in 1..Len(qs) |-> PreprocessQuestion(qs[i])]

----------------------------------------------------------------------------
(* numpy: the logistic function and the global random generator.           *)

\* 1000 / (1 + exp(-z)) rounded to thousandths, at every half unit of z
SigmoidTable ==
    <<0, 1, 1, 2, 2, 4, 7, 11, 18, 29, 47, 76, 119, 182, 269, 378, 500,
      622, 731, 818, 881, 924, 953, 971, 982, 989, 993, 996, 998, 998, 999, 999, 1000>>

\* 1 / (1 + np.exp(-z)); exp overflows to inf below, and 1 + exp(-z) rounds to 1 above
Sigmoid(z) ==
    IF z < -8000 THEN 0
    ELSE IF z > 8000 THEN 1000
    ELSE SigmoidTable[(z + 8000) \div 500 + 1]

\* np.argmax: the first index (from 0) of the largest element
argmax(v) ==
    CHOOSE i \in 0..(Len(v) - 1) :
        /\ \A j \in 0..(Len(v) - 1) : v[j + 1] <= v[i + 1]
        /\ \A j \in 0..(i - 1) : v[j + 1] < v[i + 1]

\* the generator is a deterministic function of its state: every draw returns a
\* value read off the state and moves the state on
Advance(s) == (5 * s + 3) % 16

\* np.random.seed(seed): the state depends on the seed alone
Seed(seed, k) == (seed + k) % 16

\* np.random.normal(0, 1): any real
normal(s) == <<-3000, -1000, 0, 1000, 3000>>[(s % 5) + 1]

\* np.random.dirichlet(np.ones(5)): five non-negative numbers that sum to 1
dirichlet(s) ==
    << <<200, 200, 200, 200, 200>>,
       <<1000, 0, 0, 0, 0>>,
       <<0, 100, 0, 900, 0>>,
       <<0, 0, 0, 500, 500>> >>[(s % 4) + 1]

\* np.random.random(): a number in [0, 1)
random(s) == <<0, 249, 250, 500, 949, 950, 999>>[(s % 7) + 1]

\* np.random.uniform(low, high)
uniform(low, high, s) == low + ((high - low) * <<0, 500, 1000>>[(s % 3) + 1]) \div 1000

----------------------------------------------------------------------------
(* generate_synthetic_student_data *)

SubjectVec(question) ==
    <<question.subject_logical, question.subject_arithmetic,
      question.subject_numbertheory, question.subject_geometry,
      question.subject_combinatorics>>

\* lines 121-127: the item-response function
irt_prob(question, student_ability) ==
    LET z == (question.irt_discrimination * (student_ability - question.irt_difficulty)) \div 1000
    IN  question.irt_guessing + ((1000 - question.irt_guessing) * Sigmoid(z)) \div 1000

\* line 138 without the cap
UncappedProb(p, pref_boost) == p + pref_boost

\* line 138
CappedProb(p, pref_boost) == Min(950, p + pref_boost)

\* lines 121-138: the probability the uniform draw is compared against
prob_correct(question, student_ability, subject_prefs) ==
    LET subject_idx == argmax(SubjectVec(question))
        pref_boost == subject_prefs[subject_idx + 1] \div 10
    IN  CappedProb(irt_prob(question, student_ability), pref_boost)

\* the response time without its baseline
ResponseTimeNoBase(question, student_ability, is_correct, s) ==
    LET difficulty_factor == question.difficulty * 5000
        ability_factor == 10 * Sigmoid(0 - student_ability)
        random_factor == uniform(0, 10000, s)
        response_time == difficulty_factor - ability_factor + random_factor
        noise == IF is_correct THEN uniform(800, 1200, Advance(s))
                 ELSE uniform(900, 1500, Advance(s))
    IN  (response_time * noise) \div 1000

\* lines 144-155: the response time, from the two uniform draws
ResponseTime(question, student_ability, is_correct, s) ==
    LET base_time == 30000
        difficulty_factor == question.difficulty * 5000
        ability_factor == 10 * Sigmoid(0 - student_ability)
        random_factor == uniform(0, 10000, s)
        response_time == base_time + difficulty_factor - ability_factor + random_factor
        noise == IF is_correct THEN uniform(800, 1200, Advance(s))
                 ELSE uniform(900, 1500, Advance(s))
    IN  (response_time * noise) \div 1000

\* lines 118-164 and 177-188: one question answered by student i; three draws
Respond(question, i, student_ability, subject_prefs, s) ==
    LET is_correct == random(s) < prob_correct(question, student_ability, subject_prefs)
    IN  [student_id |-> i,
         student_ability |-> student_ability,
         question_id |-> question.id,
         is_correct |-> IF is_correct THEN 1 ELSE 0,
         response_time |-> ResponseTime(question, student_ability, is_correct, Advance(s)),
         difficulty |-> question.difficulty,
         subject_idx |-> argmax(SubjectVec(question)),
         subject_pref_0 |-> subject_prefs[1],
         subject_pref_1 |-> subject_prefs[2],
         subject_pref_2 |-> subject_prefs[3],
         subject_pref_3 |-> subject_prefs[4],
         subject_pref_4 |-> subject_prefs[5]]

RECURSIVE Responses(_, _, _, _, _, _)
\* the inner loop from question k on: the rows and the generator's state after them
Responses(qdf, k, i, student_ability, subject_prefs, s) ==
    IF k > Len(qdf) THEN [rows |-> << >>, rng |-> s]
    ELSE LET rest == Responses(qdf, k + 1, i, student_ability, subject_prefs,
                               Advance(Advance(Advance(s))))
         IN  [rows |-> <<Respond(qdf[k], i, student_ability, subject_prefs, s)>> \o rest.rows,
              rng |-> rest.rng]

\* lines 109-171: student i, two draws and then the inner loop
Student(qdf, i, s) ==
    LET student_ability == normal(s)
        drawn == dirichlet(Advance(s))
        subject_prefs == [j \in 1..5 |-> drawn[j] * 2]
    IN  Responses(qdf, 1, i, student_ability, subject_prefs, Advance(Advance(s)))

RECURSIVE Students(_, _, _, _)
\* the outer loop over students lo..hi-1, the first half and then the second
Students(qdf, lo, hi, s) ==
    IF hi <= lo THEN [rows |-> << >>, rng |-> s]
    ELSE IF hi = lo + 1 THEN Student(qdf, lo, s)
    ELSE LET mid == (lo + hi) \div 2
             first == Students(qdf, lo, mid, s)
             second == Students(qdf, mid, hi, first.rng)
         IN  [rows |-> first.rows \o second.rows, rng |-> second.rng]

\* line 106 left out: the loops draw from whatever state the generator is in
NotReseeded(s, k) == s

\* line 106: np.random.seed(RANDOM_SEED)
Reseeded(s, k) == Seed(RANDOM_SEED, k)

\* the response table and the generator's state after the call
generate_synthetic_student_data(qdf, n_students, s, k) ==
    Students(qdf, 0, n_students, Reseeded(s, k))

----------------------------------------------------------------------------
(* The trainers.  A call returns a record: what it computed, the exception *)
(* that ended it ("none" when it returned), the line that raised, and the  *)
(* output directory and model files as it left them.                       *)

RECURSIVE SumCorrect(_)
SumCorrect(rows) ==
    IF rows = << >> THEN 0 ELSE Head(rows).is_correct + SumCorrect(Tail(rows))

\* Series.mean() of the is_correct column, in thousandths
MeanCorrect(rows) == (1000 * SumCorrect(rows)) \div Len(rows)

\* the student ids of the table in ascending order, as groupby yields them
SortedIds(ids) ==
    [n \in 1..Cardinality(ids) |->
        CHOOSE x \in ids : Cardinality({ y \in ids : y < x }) = n - 1]

GroupOf(df, student_id) == SelectSeq(df, LAMBDA r : r.student_id = student_id)

SubjectPrefs(row) ==
    <<row.subject_pref_0, row.subject_pref_1, row.subject_pref_2,
      row.subject_pref_3, row.subject_pref_4>>

\* lines 213-219
SubjectAccuracy(group, subject_idx) ==
    LET subject_responses == SelectSeq(group, LAMBDA r : r.subject_idx = subject_idx)
    IN  IF Len(subject_responses) > 0 THEN MeanCorrect(subject_responses) ELSE 500

\* the three terms added without their weights
UnweightedScore(difficulty_match, subject_preference, subject_weakness) ==
    difficulty_match + subject_preference + subject_weakness

\* lines 268-272
RecommendationScore(difficulty_match, subject_preference, subject_weakness) ==
    (4 * difficulty_match + 3 * subject_preference + 3 * subject_weakness) \div 10

\* lines 251-278: the row appended for one question; the three terms are kept beside
\* the score they produce
Recommend(question, student_id, group) ==
    LET subject_prefs == SubjectPrefs(group[1])
        ability_estimate == MeanCorrect(group) * 2 - 1000
        subject_idx == argmax(SubjectVec(question))
        difficulty_match == 1000 - Abs(question.irt_difficulty - ability_estimate) \div 6
        subject_preference == subject_prefs[subject_idx + 1]
        subject_weakness == 1000 - SubjectAccuracy(group, subject_idx)
    IN  [student_id |-> student_id,
         question_id |-> question.id,
         difficulty_match |-> difficulty_match,
         subject_preference |-> subject_preference,
         subject_weakness |-> subject_weakness,
         recommendation_score |->
             RecommendationScore(difficulty_match, subject_preference, subject_weakness)]

\* line 225
CorrectQuestions(group) ==
    { group[i].question_id : i \in { j \in 1..Len(group) : group[j].is_correct = 1 } }

RECURSIVE RecommendFrom(_, _, _, _)
\* lines 245-278 from question k on
RecommendFrom(qdf, k, student_id, group) ==
    IF k > Len(qdf) THEN << >>
    ELSE IF qdf[k].id \in CorrectQuestions(group)
         THEN RecommendFrom(qdf, k + 1, student_id, group)
         ELSE <<Recommend(qdf[k], student_id, group)>>
                  \o RecommendFrom(qdf, k + 1, student_id, group)

RECURSIVE ConcatRange(_, _, _)
ConcatRange(seqs, lo, hi) ==
    IF hi < lo THEN << >>
    ELSE IF hi = lo THEN seqs[lo]
    ELSE ConcatRange(seqs, lo, (lo + hi) \div 2)
             \o ConcatRange(seqs, (lo + hi) \div 2 + 1, hi)

\* pd.concat / the rows appended group after group
Concat(seqs) == ConcatRange(seqs, 1, Len(seqs))

\* lines 201-278: the recommendations of every student, in groupby order
Recommendations(qdf, rdf) ==
    LET ids == SortedIds({ rdf[i].student_id : i \in 1..Len(rdf) })
    IN  Concat([n \in 1..Len(ids) |-> RecommendFrom(qdf, 1, ids[n], GroupOf(rdf, ids[n]))])

RECURSIVE InsertDesc(_, _)
InsertDesc(x, sorted) ==
    IF sorted = << >> THEN <<x>>
    ELSE IF Head(sorted).recommendation_score >= x.recommendation_score
         THEN <<Head(sorted)>> \o InsertDesc(x, Tail(sorted))
         ELSE <<x>> \o sorted

RECURSIVE SortDesc(_)
\* sort_values('recommendation_score', ascending=False)
SortDesc(rows) ==
    IF rows = << >> THEN << >>
    ELSE InsertDesc(rows[Len(rows)], SortDesc(SubSeq(rows, 1, Len(rows) - 1)))

TopN == 20

\* .tail(20)
TailN(rows) == SubSeq(rows, Len(rows) - Min(TopN, Len(rows)) + 1, Len(rows))

\* .head(20)
HeadN(rows) == SubSeq(rows, 1, Min(TopN, Len(rows)))

\* lines 284-290
RecommendationTargets(recs) ==
    LET ids == SortedIds({ recs[i].student_id : i \in 1..Len(recs) })
    IN  Concat([n \in 1..Len(ids) |-> HeadN(SortDesc(GroupOf(recs, ids[n])))])

\* train_test_split(test_size=0.2) raises ValueError when the train part would be empty
SplitFails(n_samples) == n_samples - ((n_samples + 4) \div 5) <= 0

Outcome(raisedBy, line, dir, files, recs, targets, features) ==
    [raised |-> raisedBy, line |-> line, outdir |-> dir, saved |-> files,
     recommendations |-> recs, targets |-> targets, features |-> features]

\* coreml_model.save(model_path): the file is created in an existing directory
Save(name, line, dir, files, recs, targets, features) ==
    IF dir
    THEN Outcome("none", 0, dir, Append(files, name), recs, targets, features)
    ELSE Outcome("IOError", line, dir, files, recs, targets, features)

\* line 332: os.makedirs(OUTPUT_MODEL_DIR, exist_ok=True)
Makedirs(dir) == TRUE

train_question_recommender(qdf, rdf, dir, files) ==
    IF Len(rdf) = 0
    THEN Outcome("KeyError", 201, dir, files, << >>, << >>, << >>)
    ELSE LET recs == Recommendations(qdf, rdf)
             targets == RecommendationTargets(recs)
         IN  IF Len(recs) = 0
             THEN Outcome("KeyError", 286, dir, files, recs, << >>, << >>)
             ELSE IF SplitFails(Len(targets))
             THEN Outcome("ValueError", 303, dir, files, recs, targets, << >>)
             ELSE Save("QuestionRecommender.mlmodel", 336, Makedirs(dir), files,
                       recs, targets, << >>)

train_ability_estimator(rdf, dir, files) ==
    IF Len(rdf) = 0
    THEN Outcome("KeyError", 352, dir, files, << >>, << >>, << >>)
    ELSE IF SplitFails(Len(rdf))
    THEN Outcome("ValueError", 356, dir, files, << >>, << >>, << >>)
    ELSE Save("AbilityEstimator.mlmodel", 386, dir, files, << >>, << >>, << >>)

\* the label with a response time of 30 s counted as long
perceived_difficulty_from_30(response) ==
    IF response.is_correct = 0 \/ response.response_time >= 30000 THEN 1000 ELSE 0

\* lines 414-417
perceived_difficulty(response) ==
    IF response.is_correct = 0 \/ response.response_time > 30000 THEN 1000 ELSE 0

\* lines 398-418: one feature row per response
DifficultyFeature(qdf, response) ==
    LET question == qdf[CHOOSE k \in 1..Len(qdf) :
                          /\ qdf[k].id = response.question_id
                          /\ \A j \in 1..(k - 1) : qdf[j].id # response.question_id]
    IN  [student_ability |-> response.student_ability,
         subject_idx |-> response.subject_idx,
         subject_pref |-> SubjectPrefs(response)[response.subject_idx + 1],
         irt_discrimination |-> question.irt_discrimination,
         irt_difficulty |-> question.irt_difficulty,
         irt_guessing |-> question.irt_guessing,
         is_open_ended |-> question.is_open_ended,
         question_length |-> question.question_length,
         perceived_difficulty |-> perceived_difficulty(response)]

train_difficulty_predictor(qdf, rdf, dir, files) ==
    LET features == [i \in 1..Len(rdf) |-> DifficultyFeature(qdf, rdf[i])]
    IN  IF Len(features) = 0
        THEN Outcome("KeyError", 424, dir, files, << >>, << >>, features)
        ELSE IF SplitFails(Len(features))
        THEN Outcome("ValueError", 428, dir, files, << >>, << >>, features)
        ELSE Save("DifficultyPredictor.mlmodel", 458, dir, files, << >>, << >>, features)

----------------------------------------------------------------------------
(* load_question_data *)

\* the input file: absent, not JSON, a JSON array, or a JSON object
InputFiles(lists) ==
    {[kind |-> "missing"], [kind |-> "garbage"], [kind |-> "array"]}
      \cup {[kind |-> "object", data |-> [version |-> 1]]}
      \cup {[kind |-> "object", data |-> [questions |-> l]] : l \in lists}

Returned(v) == [raised |-> "none", value |-> v]

Raised(e) == [raised |-> e, value |-> << >>]

\* lines 32-35: the body of the try block
LoadBody(f) ==
    IF f.kind = "missing" THEN Raised("FileNotFoundError")
    ELSE IF f.kind = "garbage" THEN Raised("JSONDecodeError")
    ELSE IF f.kind = "array" THEN Raised("TypeError")
    ELSE IF "questions" \notin DOMAIN f.data THEN Raised("KeyError")
    ELSE Returned(f.data.questions)

\* a handler that names the missing file alone
CaughtIfMissing(e) == e = "FileNotFoundError"

\* line 36: except Exception
Caught(e) == e \in {"FileNotFoundError", "JSONDecodeError", "TypeError", "KeyError"}

load_question_data(f) ==
    LET body == LoadBody(f)
    IN  IF body.raised # "none" /\ Caught(body.raised) THEN Returned(<< >>) ELSE body

----------------------------------------------------------------------------
(* Sample inputs *)

GeometryEasy ==
    [id |-> 1, subject |-> "Geometry", difficulty |-> "Easy",
     type |-> "multiple-choice", content |-> [question |-> "2+2=?"]]

ArithmeticOlympiad ==
    [id |-> 2, subject |-> "Arithmetic", difficulty |-> "Olympiad",
     type |-> "open-ended", content |-> [question |-> "1+1=?"],
     parameters |-> [eloRating |-> 1500,
                     irt |-> [discrimination |-> 2000, difficulty |-> 1000, guessing |-> 200]]]

AlgebraExpert ==
    [id |-> 3, subject |-> "Algebra", difficulty |-> "Expert",
     type |-> "multiple-choice", content |-> [question |-> "x=?"],
     parameters |-> [irt |-> [discrimination |-> 2000, difficulty |-> 1000, guessing |-> -500]]]

CombinatoricsHard ==
    [id |-> 4, subject |-> "Combinatorics", difficulty |-> "Hard",
     type |-> "multiple-choice", content |-> [question |-> "5!=?"],
     parameters |-> [irt |-> [difficulty |-> -1000]]]

Scenario == <<GeometryEasy, ArithmeticOlympiad>>

QuestionLists ==
    {<< >>, Scenario, <<AlgebraExpert>>, <<CombinatoricsHard, GeometryEasy, ArithmeticOlympiad>>}

GenTables == { preprocess_question_data(l) : l \in QuestionLists }

NoException == [type |-> "none", line |-> 0]

NoCounts == [updated_count |-> 0, english_only_count |-> 0]

NoOutcome == Outcome("none", 0, FALSE, << >>, << >>, << >>, << >>)

\* a DataFrame that had its columns whatever its rows
ColumnsDeclared(df) == TRUE

\* pd.DataFrame(rows): the columns are the keys of the rows, so an empty list of
\* rows gives a frame without columns, and df[column] raises KeyError on it
HasColumns(df) == Len(df) > 0

n_students_default == 50

----------------------------------------------------------------------------
(* preprocess_question_data applied to a question list *)

PreInputs ==
    {<< >>} \cup { <<q>> : q \in QuestionRecords } \cup QuestionLists

InitPre ==
    /\ pc = "start"
    /\ questions \in PreInputs
    /\ file = [kind |-> "missing"]
    /\ question_df = << >>
    /\ response_df = << >>
    /\ rng = 0
    /\ salt = 0
    /\ runs = << >>
    /\ trained = NoOutcome
    /\ outdir = FALSE
    /\ saved = << >>
    /\ raised = NoException
    /\ counts = NoCounts

CallPreprocess ==
    /\ pc = "start"
    /\ question_df' = preprocess_question_data(questions)
    /\ pc' = "preprocessed"
    /\ UNCHANGED <<counts, file, questions, response_df, rng, salt, runs, trained, outdir,
                   saved, raised>>

NextPre == CallPreprocess

SpecPre == InitPre /\ [][NextPre]_vars

----------------------------------------------------------------------------
(* generate_synthetic_student_data called by a program that also draws     *)
(* from the global generator                                               *)

InitGen ==
    /\ pc = "idle"
    /\ salt \in 0..15
    /\ rng \in 0..15
    /\ runs = << >>
    /\ file = [kind |-> "missing"]
    /\ questions = << >>
    /\ question_df = << >>
    /\ response_df = << >>
    /\ trained = NoOutcome
    /\ outdir = FALSE
    /\ saved = << >>
    /\ raised = NoException
    /\ counts = NoCounts

\* any other use of np.random by the caller
OtherDraw ==
    /\ rng' = Advance(rng)
    /\ UNCHANGED <<counts, pc, file, questions, question_df, response_df, salt, runs, trained,
                   outdir, saved, raised>>

CallGenerate ==
    /\ Len(runs) < 2
    /\ \E qdf \in GenTables, n \in 0..MaxStudents :
          LET out == generate_synthetic_student_data(qdf, n, rng, salt)
          IN  /\ runs' = Append(runs, [question_df |-> qdf, n_students |-> n,
                                       response_df |-> out.rows])
              /\ rng' = out.rng
    /\ UNCHANGED <<counts, pc, file, questions, question_df, response_df, salt, trained,
                   outdir, saved, raised>>

NextGen == OtherDraw \/ CallGenerate

SpecGen == InitGen /\ [][NextGen]_vars

----------------------------------------------------------------------------
(* Each trainer called on its own, on a generated response table           *)

\* more questions than a student's targets can hold
ManyQuestions ==
    [k \in 1..(TopN + 2) |->
        [id |-> 100 + k,
         subject |->
             <<"Logical Thinking", "Arithmetic", "Number Theory", "Geometry",
               "Combinatorics">>[(k % 5) + 1],
         difficulty |-> <<"Easy", "Medium", "Hard", "Olympiad">>[(k % 4) + 1],
         type |-> "multiple-choice",
         content |-> [question |-> "2+2=?"],
         parameters |-> [irt |-> [difficulty |-> ((7 * k) % 11) * 200 - 1000]]]]

TrainTables == GenTables \cup {preprocess_question_data(ManyQuestions)}

InitTrain ==
    /\ pc = "start"
    /\ question_df \in TrainTables
    /\ salt \in 0..15
    /\ outdir \in BOOLEAN
    /\ rng = 0
    /\ response_df = << >>
    /\ runs = << >>
    /\ file = [kind |-> "missing"]
    /\ questions = << >>
    /\ trained = NoOutcome
    /\ saved = << >>
    /\ raised = NoException
    /\ counts = NoCounts

PrepareResponses ==
    /\ pc = "start"
    /\ \E n \in 0..MaxStudents :
          LET out == generate_synthetic_student_data(question_df, n, rng, salt)
          IN  response_df' = out.rows /\ rng' = out.rng
    /\ pc' = "ready"
    /\ UNCHANGED <<counts, file, questions, question_df, salt, runs, trained, outdir, saved,
                   raised>>

PrefVectors ==
    {<<400, 400, 400, 400, 400>>, <<1000, 1000, 1000, 1000, 1000>>,
     <<0, 0, 0, 0, 2000>>, <<0, 0, 0, 0, 0>>}

\* the answers of a student to n questions: every pattern for a short table;
\* none, the first, every other one or all of them correct for a long one
AnswerPatterns(n) ==
    IF n <= MaxAnswers
    THEN [1..n -> {0, 1}]
    ELSE { [k \in 1..n |-> 0], [k \in 1..n |-> IF k = 1 THEN 1 ELSE 0],
           [k \in 1..n |-> k % 2], [k \in 1..n |-> 1] }

\* a response table of one student who answered every question of qdf, as a
\* caller may pass it: any answers, any preferences, any response time
ResponseTables(qdf) ==
    { [k \in 1..Len(qdf) |->
          [student_id |-> 0,
           student_ability |-> 0,
           question_id |-> qdf[k].id,
           is_correct |-> answers[k],
           response_time |-> time,
           difficulty |-> qdf[k].difficulty,
           subject_idx |-> argmax(SubjectVec(qdf[k])),
           subject_pref_0 |-> prefs[1],
           subject_pref_1 |-> prefs[2],
           subject_pref_2 |-> prefs[3],
           subject_pref_3 |-> prefs[4],
           subject_pref_4 |-> prefs[5]]] :
        answers \in AnswerPatterns(Len(qdf)), prefs \in PrefVectors,
        time \in {29999, 30000, 30001} }

PrepareGiven ==
    /\ pc = "start"
    /\ response_df' \in ResponseTables(question_df)
    /\ pc' = "ready"
    /\ UNCHANGED <<counts, file, questions, question_df, rng, salt, runs, trained, outdir, saved,
                   raised>>

\* the caller's state after a trainer ended with outcome out
AfterTrainer(out, returned) ==
    /\ trained' = out
    /\ outdir' = out.outdir
    /\ saved' = out.saved
    /\ raised' = [type |-> out.raised, line |-> out.line]
    /\ pc' = IF out.raised = "none" THEN returned ELSE "crashed"

CallRecommender ==
    /\ pc = "ready"
    /\ AfterTrainer(train_question_recommender(question_df, response_df, outdir, saved),
                    "recommender_returned")
    /\ UNCHANGED <<counts, file, questions, question_df, response_df, rng, salt, runs>>

CallAbility ==
    /\ pc = "ready"
    /\ AfterTrainer(train_ability_estimator(response_df, outdir, saved), "ability_returned")
    /\ UNCHANGED <<counts, file, questions, question_df, response_df, rng, salt, runs>>

CallDifficulty ==
    /\ pc = "ready"
    /\ AfterTrainer(train_difficulty_predictor(question_df, response_df, outdir, saved),
                    "difficulty_returned")
    /\ UNCHANGED <<counts, file, questions, question_df, response_df, rng, salt, runs>>

NextTrain == PrepareResponses \/ PrepareGiven \/ CallRecommender \/ CallAbility \/ CallDifficulty

SpecTrain == InitTrain /\ [][NextTrain]_vars

----------------------------------------------------------------------------
(* main *)

Init ==
    /\ pc = "start"
    /\ file \in InputFiles(QuestionLists)
    /\ outdir \in BOOLEAN
    /\ salt \in 0..15
    /\ rng = 0
    /\ questions = << >>
    /\ question_df = << >>
    /\ response_df = << >>
    /\ runs = << >>
    /\ trained = NoOutcome
    /\ saved = << >>
    /\ raised = NoException
    /\ counts = NoCounts

\* line 469
MainLoad ==
    /\ pc = "start"
    /\ LET got == load_question_data(file)
       IN  IF got.raised = "none"
           THEN questions' = got.value /\ pc' = "loaded" /\ UNCHANGED raised
           ELSE /\ raised' = [type |-> got.raised, line |-> 469]
                /\ pc' = "crashed"
                /\ UNCHANGED questions
    /\ UNCHANGED <<counts, file, question_df, response_df, rng, salt, runs, trained, outdir, saved>>

\* line 470
MainPreprocess ==
    /\ pc = "loaded"
    /\ question_df' = preprocess_question_data(questions)
    /\ pc' = "preprocessed"
    /\ UNCHANGED <<counts, file, questions, response_df, rng, salt, runs, trained, outdir,
                   saved, raised>>

\* line 475
MainGenerate ==
    /\ pc = "preprocessed"
    /\ LET out == generate_synthetic_student_data(question_df, n_students_default, rng, salt)
       IN  response_df' = out.rows /\ rng' = out.rng
    /\ pc' = "generated"
    /\ UNCHANGED <<counts, file, questions, question_df, salt, runs, trained, outdir, saved,
                   raised>>

\* line 476: response_df['student_id'].nunique()
MainReport ==
    /\ pc = "generated"
    /\ IF HasColumns(response_df)
       THEN pc' = "training" /\ UNCHANGED raised
       ELSE pc' = "crashed" /\ raised' = [type |-> "KeyError", line |-> 476]
    /\ UNCHANGED <<counts, file, questions, question_df, response_df, rng, salt, runs, trained,
                   outdir, saved>>

\* line 480
MainRecommender ==
    /\ pc = "training"
    /\ AfterTrainer(train_question_recommender(question_df, response_df, outdir, saved),
                    "recommender_trained")
    /\ UNCHANGED <<counts, file, questions, question_df, response_df, rng, salt, runs>>

\* line 483
MainAbility ==
    /\ pc = "recommender_trained"
    /\ AfterTrainer(train_ability_estimator(response_df, outdir, saved), "ability_trained")
    /\ UNCHANGED <<counts, file, questions, question_df, response_df, rng, salt, runs>>

\* line 486
MainDifficulty ==
    /\ pc = "ability_trained"
    /\ AfterTrainer(train_difficulty_predictor(question_df, response_df, outdir, saved),
                    "done")
    /\ UNCHANGED <<counts, file, questions, question_df, response_df, rng, salt, runs>>

Next ==
    \/ MainLoad
    \/ MainPreprocess
    \/ MainGenerate
    \/ MainReport
    \/ MainRecommender
    \/ MainAbility
    \/ MainDifficulty

Spec == Init /\ [][Next]_vars

----------------------------------------------------------------------------
(* update_vietnamese_translations.py.  A text is the sequence of its lines *)
(* and of the line breaks between them, so `a + "\n" + b` is               *)
(* a \o <<NL>> \o b and `"\n" in a` is "some element of a is NL".  The    *)
(* Vietnamese lines are written without their marks.                       *)

MaxBankLen == 2

NL == "\n"

\* the lines of the model that hold one of the letters of vietnamese_chars
VietnameseLines ==
    {"Trong gia dinh, Mina co tong cong 3 chi em gai. Hoi me cua Mina co bao nhieu nguoi con?",
     "Bang cach quan sat quy luat, so nao can dien vao cho trong?",
     "Cong cac so: 1 + 9 + 6 + 4 + 2 = 22"}

HasNewline(text) == \E i \in 1..Len(text) : text[i] = NL

HasVietnameseChar(text) == \E i \in 1..Len(text) : text[i] \in VietnameseLines

is_english_only(question_text) ==
    IF HasNewline(question_text) THEN FALSE
    ELSE IF HasVietnameseChar(question_text) THEN FALSE
    ELSE TRUE

FindTheValue == <<"Find the value of 1 + 9 + 6 + 4 + 2.">>

MinaSisters ==
    <<"In the family, Mina has 3 sisters in total. How many children does Mina's mother have?">>

ObservePattern ==
    <<"By observing the pattern, what is the number in the space provided?", NL,
      "0, 5, 10, 15, ...">>

\* three rows of the table: the first, the third (its translation holds a letter
\* of vietnamese_chars, the first's does not) and the fifth (a key of two lines)
translations ==
    [question \in {FindTheValue, MinaSisters, ObservePattern} |->
        CASE question = FindTheValue -> <<"Tim gia tri cua 1 + 9 + 6 + 4 + 2.">>
          [] question = MinaSisters ->
               <<"Trong gia dinh, Mina co tong cong 3 chi em gai. Hoi me cua Mina co bao nhieu nguoi con?">>
          [] question = ObservePattern ->
               <<"Bang cach quan sat quy luat, so nao can dien vao cho trong?", NL,
                 "0, 5, 10, 15, ...">>]

AddingTheNumbers == <<"Adding the numbers: 1 + 9 + 6 + 4 + 2 = 22">>

explanation_translations ==
    [explanation \in {AddingTheNumbers} |-> <<"Cong cac so: 1 + 9 + 6 + 4 + 2 = 22">>]

\* returns the pair (content, was_updated)
add_vietnamese_translation(content) ==
    IF "question" \notin DOMAIN content
    THEN [content |-> content, was_updated |-> FALSE]
    ELSE IF ~is_english_only(content.question)
    THEN [content |-> content, was_updated |-> FALSE]
    ELSE IF content.question \in DOMAIN translations
    THEN LET translated ==
                 [content EXCEPT
                    !.question = content.question \o <<NL>> \o translations[content.question]]
         IN  [content |->
                 IF "explanation" \in DOMAIN content
                    /\ content.explanation \in DOMAIN explanation_translations
                 THEN [translated EXCEPT
                         !.explanation = content.explanation \o <<NL>>
                                           \o explanation_translations[content.explanation]]
                 ELSE translated,
              was_updated |-> TRUE]
    ELSE [content |-> content, was_updated |-> FALSE]

\* `"content" in item` when item is a str: the substring test
NamesContent(key) == key \in {"content", "contents"}

\* lines 84-86 for a dict item
TranslateItem(item) ==
    IF "content" \in DOMAIN item
    THEN [item EXCEPT !.content = add_vietnamese_translation(item.content).content]
    ELSE item

WasUpdated(item) ==
    "content" \in DOMAIN item /\ add_vietnamese_translation(item.content).was_updated

\* the elif of line 90
StillEnglish(item) ==
    /\ "content" \in DOMAIN item
    /\ ~add_vietnamese_translation(item.content).was_updated
    /\ "question" \in DOMAIN item.content
    /\ is_english_only(item.content.question)

\* the script from line 8 to line 96: `for item in data` walks the elements of a
\* list and the keys of a dict
update_vietnamese_translations(f) ==
    IF f.kind = "array"
    THEN [file |-> [f EXCEPT !.data = [i \in 1..Len(f.data) |-> TranslateItem(f.data[i])]],
          counts |->
              [updated_count |-> Cardinality({ i \in 1..Len(f.data) : WasUpdated(f.data[i]) }),
               english_only_count |->
                   Cardinality({ i \in 1..Len(f.data) : StillEnglish(f.data[i]) })],
          raised |-> NoException]
    ELSE IF \E key \in DOMAIN f.data : NamesContent(key)
    THEN [file |-> f, counts |-> NoCounts, raised |-> [type |-> "TypeError", line |-> 85]]
    ELSE [file |-> f, counts |-> NoCounts, raised |-> NoException]

\* the questions of the sample banks
TranslationItems ==
    { [id |-> 1],
      [id |-> 1, content |-> [answer |-> <<"22">>]],
      [id |-> 1, content |-> [question |-> FindTheValue]],
      [id |-> 1, content |-> [question |-> FindTheValue, explanation |-> AddingTheNumbers]],
      [id |-> 1, content |-> [question |-> MinaSisters]],
      [id |-> 1, content |-> [question |-> ObservePattern]],
      [id |-> 1, content |-> [question |-> FindTheValue \o <<NL>> \o translations[FindTheValue]]],
      [id |-> 1, content |-> [question |-> <<"What is 2 + 2?">>]] }

ItemLists(items) == UNION { [1..n -> items] : n \in 0..MaxBankLen }

\* the document is a list of questions
ArrayBanks == { [kind |-> "array", data |-> l] : l \in ItemLists(TranslationItems) }

\* the document is an object with a `questions` list
ObjectBanks ==
    { [kind |-> "object", data |-> [questions |-> l]] : l \in ItemLists(TranslationItems) }
      \cup { [kind |-> "object", data |-> [questions |-> l, contents |-> 1]] :
               l \in ItemLists(TranslationItems) }

InitPatch ==
    /\ pc = "start"
    /\ questions = << >>
    /\ question_df = << >>
    /\ response_df = << >>
    /\ rng = 0
    /\ salt = 0
    /\ runs = << >>
    /\ trained = NoOutcome
    /\ outdir = FALSE
    /\ saved = << >>
    /\ raised = NoException
    /\ counts = NoCounts

InitTranslate ==
    /\ InitPatch
    /\ \/ file \in ArrayBanks
       \/ file \in ObjectBanks

\* the script run on the bank, and run again on what it wrote
RunTranslations ==
    /\ pc \in {"start", "translated"}
    /\ LET out == update_vietnamese_translations(file)
       IN  /\ file' = out.file
           /\ counts' = out.counts
           /\ raised' = out.raised
           /\ pc' = IF out.raised # NoException THEN "crashed"
                    ELSE IF pc = "start" THEN "translated" ELSE "translated_again"
    /\ UNCHANGED <<questions, question_df, response_df, rng, salt, runs, trained,
                   outdir, saved>>

NextTranslate == RunTranslations

SpecTranslate == InitTranslate /\ [][NextTranslate]_vars

----------------------------------------------------------------------------
(* update_geometry_images.py, run on a bank whose questions each have an   *)
(* id and a subject                                                        *)

\* content['imageData'] = question_id: the key is added or overwritten
SetImageData(content, question_id) ==
    [key \in DOMAIN content \cup {"imageData"} |->
        IF key = "imageData" THEN question_id ELSE content[key]]

\* the loop body without the test of line 17
UpdateImageAnySubject(question) ==
    IF "content" \in DOMAIN question
    THEN [question EXCEPT !.content = SetImageData(question.content, question.id)]
    ELSE question

\* lines 17-22
UpdateImage(question) ==
    IF question.subject = "Geometry" /\ "content" \in DOMAIN question
    THEN [question EXCEPT !.content = SetImageData(question.content, question.id)]
    ELSE question

\* line 23 is reached for this question
ImageCounted(question) == question.subject = "Geometry" /\ "content" \in DOMAIN question

\* the script from line 9 to line 28
update_geometry_images(f) ==
    LET qs == f.data.questions
    IN  [file |-> [f EXCEPT !.data.questions = [i \in 1..Len(qs) |-> UpdateImage(qs[i])]],
         counts |->
             [updated_count |-> Cardinality({ i \in 1..Len(qs) : ImageCounted(qs[i]) })]]

GeometryContents ==
    { [question |-> "How many sides?"],
      [question |-> "How many sides?", imageData |-> 1],
      [question |-> "How many sides?", imageData |-> 2] }

\* the questions of the sample banks: imageData absent, equal to the id or not
GeometryItems ==
    [id : {1, 2}, subject : {"Geometry", "geometry", "Arithmetic"}]
      \cup [id : {1, 2}, subject : {"Geometry", "geometry", "Arithmetic"},
            content : GeometryContents]

GeometryBanks ==
    { [kind |-> "object", data |-> [version |-> 1, questions |-> l]] :
        l \in ItemLists(GeometryItems) }

InitGeometry ==
    /\ InitPatch
    /\ file \in GeometryBanks

\* the script run on the bank, and run again on what it wrote
RunUpdateGeometry ==
    /\ pc \in {"start", "updated"}
    /\ LET out == update_geometry_images(file)
       IN  /\ file' = out.file
           /\ counts' = out.counts
    /\ pc' = IF pc = "start" THEN "updated" ELSE "updated_again"
    /\ UNCHANGED <<questions, question_df, response_df, rng, salt, runs, trained,
                   outdir, saved, raised>>

NextGeometry == RunUpdateGeometry

SpecGeometry == InitGeometry /\ [][NextGeometry]_vars

----------------------------------------------------------------------------
(* Properties *)

Sum5(v) == v[1] + v[2] + v[3] + v[4] + v[5]

Preprocessed == pc = "preprocessed"

\* C1 as stated: for every question record, whatever its subject and difficulty
\* strings, the five subject columns of its feature row sum to exactly 1 and the
\* row's difficulty is in {1,2,3,4}.
C1_OneHotSumsToOne ==
    Preprocessed =>
        \A i \in 1..Len(question_df) :
            /\ Sum5(SubjectVec(question_df[i])) = 1
            /\ question_df[i].difficulty \in {1, 2, 3, 4}

\* C1 amended: there is one feature row per record; its difficulty is in {1,2,3,4}
\* whatever the difficulty string; its subject columns are 0 or 1 and sum to 1
\* when the subject is one of the five listed subjects, and are all 0 otherwise.
C1_OneHotForKnownSubjects ==
    Preprocessed =>
        /\ Len(question_df) = Len(questions)
        /\ \A i \in 1..Len(question_df) :
              /\ question_df[i].difficulty \in {1, 2, 3, 4}
              /\ \A j \in 1..5 : SubjectVec(question_df[i])[j] \in {0, 1}
              /\ Sum5(SubjectVec(question_df[i])) =
                     IF questions[i].subject \in KnownSubjects THEN 1 ELSE 0

C1_Witness ==
    /\ Preprocessed
    /\ Len(questions) = 1
    /\ questions[1].subject \in KnownSubjects
    /\ questions[1].difficulty \notin KnownDifficulties
    /\ question_df[1].difficulty = 2
    /\ Sum5(SubjectVec(question_df[1])) = 1

HasIrt(q, k) ==
    /\ "parameters" \in DOMAIN q
    /\ "irt" \in DOMAIN q.parameters
    /\ k \in DOMAIN q.parameters.irt

HasElo(q) == "parameters" \in DOMAIN q /\ "eloRating" \in DOMAIN q.parameters

\* C4: a record without `parameters` gives discrimination 1.0, difficulty 0.0,
\* guessing 0.25 and Elo 1200; with `parameters`, each of the four values that is
\* missing falls back to its default and each present one is passed through.
C4_ParameterDefaults ==
    Preprocessed =>
        \A i \in 1..Len(questions) :
            LET q == questions[i]
                row == question_df[i]
            IN  /\ "parameters" \notin DOMAIN q =>
                      /\ row.irt_discrimination = 1000
                      /\ row.irt_difficulty = 0
                      /\ row.irt_guessing = 250
                      /\ row.elo_rating = 1200
                /\ row.elo_rating = IF HasElo(q) THEN q.parameters.eloRating ELSE 1200
                /\ row.irt_discrimination =
                       IF HasIrt(q, "discrimination")
                       THEN q.parameters.irt.discrimination ELSE 1000
                /\ row.irt_difficulty =
                       IF HasIrt(q, "difficulty") THEN q.parameters.irt.difficulty ELSE 0
                /\ row.irt_guessing =
                       IF HasIrt(q, "guessing") THEN q.parameters.irt.guessing ELSE 250

C4_Witness ==
    /\ Preprocessed
    /\ Len(questions) = 1
    /\ HasIrt(questions[1], "discrimination")
    /\ "irt" \in DOMAIN questions[1].parameters
    /\ ~HasIrt(questions[1], "guessing")
    /\ ~HasElo(questions[1])
    /\ question_df[1].irt_discrimination = 2000
    /\ question_df[1].irt_guessing = 250

SameInput(a, b) == a.question_df = b.question_df /\ a.n_students = b.n_students

\* C2: two calls of the generator with the same question table and the same
\* n_students return identical response tables, whatever was drawn before each.
C2_SameInputSameTable ==
    \A i, j \in 1..Len(runs) :
        SameInput(runs[i], runs[j]) => runs[i].response_df = runs[j].response_df

C2_Witness ==
    /\ Len(runs) = 2
    /\ SameInput(runs[1], runs[2])
    /\ Len(runs[1].response_df) > 1
    /\ rng # Seed(RANDOM_SEED, salt)

ScenarioRuns ==
    { i \in 1..Len(runs) :
        runs[i].question_df = preprocess_question_data(Scenario) /\ runs[i].n_students = 3 }

IsArgmax(v, idx) ==
    /\ idx \in 0..4
    /\ \A j \in 1..5 : v[j] <= v[idx + 1]
    /\ \A j \in 1..idx : v[j] < v[idx + 1]

\* one row per student-question pair, student by student, each with the index of
\* its question's subject column
RowPerPair(run) ==
    LET nq == Len(run.question_df)
    IN  /\ Len(run.response_df) = run.n_students * nq
        /\ \A i \in 0..(run.n_students - 1) : \A k \in 1..nq :
              LET row == run.response_df[i * nq + k]
              IN  /\ row.student_id = i
                  /\ row.question_id = run.question_df[k].id
                  /\ IsArgmax(SubjectVec(run.question_df[k]), row.subject_idx)

\* C3 as stated: for the Geometry/Easy and Arithmetic/Olympiad questions and 3
\* students the table has exactly 6 rows (in general one row per student-question
\* pair), and every subject_idx is in {2,1} and is the argmax of the one-hot vector.
C3_ScenarioSubjectIdx21 ==
    /\ \A i \in 1..Len(runs) : RowPerPair(runs[i])
    /\ \A i \in ScenarioRuns :
          /\ Len(runs[i].response_df) = 6
          /\ \A r \in 1..6 : runs[i].response_df[r].subject_idx \in {2, 1}

\* C3 amended: the same, with subject_idx in {3,1}: 3 for the Geometry question
\* and 1 for the Arithmetic question.
C3_ScenarioSubjectIdx31 ==
    /\ \A i \in 1..Len(runs) : RowPerPair(runs[i])
    /\ \A i \in ScenarioRuns :
          /\ Len(runs[i].response_df) = 6
          /\ \A r \in 1..6 :
                runs[i].response_df[r].subject_idx = IF r \in {1, 3, 5} THEN 3 ELSE 1

C3_Witness == ScenarioRuns # {}

\* the probability compared against the draw of a response row
RowProb(run, r) ==
    LET row == run.response_df[r]
        k == ((r - 1) % Len(run.question_df)) + 1
    IN  prob_correct(run.question_df[k], row.student_ability, SubjectPrefs(row))

RowQuestion(run, r) == run.question_df[((r - 1) % Len(run.question_df)) + 1]

\* C5 as stated: for every student and every question the probability the
\* uniform draw is compared against lies in [0,1] and never exceeds 0.95.
C5_ProbClamped ==
    \A i \in 1..Len(runs) : \A r \in 1..Len(runs[i].response_df) :
        RowProb(runs[i], r) >= 0 /\ RowProb(runs[i], r) <= 950

\* C5 amended: the probability never exceeds 0.95; it is at least 0 whenever the
\* question's irt_guessing lies in [0,1] (only the upper end is clamped).
C5_ProbCapped ==
    \A i \in 1..Len(runs) : \A r \in 1..Len(runs[i].response_df) :
        /\ RowProb(runs[i], r) <= 950
        /\ RowQuestion(runs[i], r).irt_guessing \in 0..1000 => RowProb(runs[i], r) >= 0

\* a row whose uncapped probability is above 0.95, and so was capped
C5_Witness ==
    \E i \in 1..Len(runs) : \E r \in 1..Len(runs[i].response_df) :
        /\ RowProb(runs[i], r) = 950
        /\ irt_prob(RowQuestion(runs[i], r), runs[i].response_df[r].student_ability) > 950

\* C7: every response row has is_correct in {0,1} and a non-negative response
\* time, for every ability and every question of difficulty 1 to 4.
C7_RowsWellFormed ==
    \A i \in 1..Len(runs) : \A r \in 1..Len(runs[i].response_df) :
        RowQuestion(runs[i], r).difficulty \in {1, 2, 3, 4} =>
            /\ runs[i].response_df[r].is_correct \in {0, 1}
            /\ runs[i].response_df[r].response_time >= 0

\* a wrong and a right answer of the least able student to the easiest question
C7_Witness ==
    \E i \in 1..Len(runs) : \E r, t \in 1..Len(runs[i].response_df) :
        /\ runs[i].response_df[r].is_correct = 0
        /\ runs[i].response_df[r].student_ability = -3000
        /\ runs[i].response_df[r].difficulty = 1
        /\ runs[i].response_df[t].is_correct = 1

InRange(x) == x >= 0 /\ x <= 1000

\* C6: every recommendation score lies in [0,1] whenever its difficulty_match,
\* subject_preference and subject_weakness each lie in [0,1].
C6_ScoreInRange ==
    \A i \in 1..Len(trained.recommendations) :
        LET rec == trained.recommendations[i]
        IN  (/\ InRange(rec.difficulty_match)
             /\ InRange(rec.subject_preference)
             /\ InRange(rec.subject_weakness)) => InRange(rec.recommendation_score)

\* a recommendation with all three terms at 1, and so a score of 1
C6_Witness ==
    \E i \in 1..Len(trained.recommendations) :
        LET rec == trained.recommendations[i]
        IN  /\ rec.difficulty_match = 1000
            /\ rec.subject_weakness = 1000
            /\ rec.subject_preference = 1000
            /\ rec.recommendation_score = 1000

LoadFails == file.kind # "object" \/ "questions" \notin DOMAIN file.data

\* C8: load_question_data never raises; it returns an empty collection when the
\* file is missing, is not JSON or has no `questions` key, and the `questions`
\* list unchanged otherwise.
C8_LoadNeverRaises ==
    pc # "start" =>
        /\ raised.line # 469
        /\ questions = IF LoadFails THEN << >> ELSE file.data.questions

C8_Witness ==
    \/ pc = "loaded" /\ file.kind = "garbage" /\ questions = << >>
    \/ pc = "loaded" /\ ~LoadFails /\ Len(questions) = 3

TrainerLines == 192..461

\* C9 as stated: when the load fails, main runs the extractor and the generator
\* on the empty question set, proceeds to the training stage, and ends with an
\* exception raised inside a trainer, with no model file written.
C9_FailsInsideTrainer ==
    (LoadFails /\ pc = "crashed") =>
        /\ question_df = << >>
        /\ response_df = << >>
        /\ raised.line \in TrainerLines
        /\ saved = << >>

\* C9 amended: when the load fails, main runs the extractor and the generator on
\* the empty question set (both tables are empty); the run then ends with a
\* KeyError raised in main at line 476, where it reads the student_id column of
\* the empty response table, before any trainer is called and with no model file
\* written.
C9_FailsBeforeTraining ==
    LoadFails =>
        /\ pc \in {"start", "loaded", "preprocessed", "generated", "crashed"}
        /\ question_df = << >>
        /\ response_df = << >>
        /\ saved = << >>
        /\ trained = NoOutcome
        /\ pc = "crashed" => raised = [type |-> "KeyError", line |-> 476]

C9_Witness == LoadFails /\ pc = "crashed" /\ raised.line = 476

\* C10: each of the three trainers, called on its own with the output directory
\* absent, creates the directory before it writes its model file.
C10_TrainerCreatesOutdir ==
    [][(/\ pc = "ready"
        /\ pc' # "ready"
        /\ ~outdir
        /\ trained'.raised \notin {"KeyError", "ValueError"})
          => (outdir' /\ Len(saved') = Len(saved) + 1)]_vars

\* C11: the script run on a bank that is an object with a `questions` list writes
\* back a bank in which every question whose text is a key of the translation
\* table has that text followed by a line break and the table's translation
Translatable(q) ==
    /\ "content" \in DOMAIN q
    /\ "question" \in DOMAIN q.content
    /\ q.content.question \in DOMAIN translations

C11_TranslatesQuestionBank ==
    [][(pc = "start" /\ pc' # "start" /\ file.kind = "object")
         => /\ pc' = "translated"
            /\ file'.kind = "object"
            /\ Len(file'.data.questions) = Len(file.data.questions)
            /\ \A i \in 1..Len(file.data.questions) :
                  Translatable(file.data.questions[i])
                    => file'.data.questions[i].content.question
                         = file.data.questions[i].content.question \o <<NL>>
                             \o translations[file.data.questions[i].content.question]]_vars


\* C12: for every student, the targets the recommender keeps number at most 20,
\* hold no question the student answered correctly, and each has a score at
\* least that of every question the student has not yet answered correctly and
\* that was not kept
StudentIds == { response_df[i].student_id : i \in 1..Len(response_df) }

TargetsOf(student_id) == SelectSeq(trained.targets, LAMBDA t : t.student_id = student_id)

AnsweredCorrectly(student_id, question_id) ==
    \E i \in 1..Len(response_df) :
        /\ response_df[i].student_id = student_id
        /\ response_df[i].question_id = question_id
        /\ response_df[i].is_correct = 1

Kept(student_id, question_id) ==
    \E i \in 1..Len(trained.targets) :
        /\ trained.targets[i].student_id = student_id
        /\ trained.targets[i].question_id = question_id

\* the questions of the table the student has not yet answered correctly and
\* that are not among the student's targets
LeftOut(student_id) ==
    { k \in 1..Len(question_df) :
        /\ ~AnsweredCorrectly(student_id, question_df[k].id)
        /\ ~Kept(student_id, question_df[k].id) }

ScoreOf(student_id, k) ==
    Recommend(question_df[k], student_id, GroupOf(response_df, student_id)).recommendation_score

C12_TopTargets ==
    \A student_id \in StudentIds :
        LET kept == TargetsOf(student_id)
        IN  /\ Len(kept) <= 20
            /\ \A i \in 1..Len(kept) :
                  /\ ~AnsweredCorrectly(student_id, kept[i].question_id)
                  /\ \A k \in LeftOut(student_id) :
                        kept[i].recommendation_score >= ScoreOf(student_id, k)

\* a student with 20 targets, a question answered correctly, and a question left
\* out whose score is below that of every target
C12_Witness ==
    /\ pc = "recommender_returned"
    /\ \E student_id \in StudentIds :
          LET kept == TargetsOf(student_id)
          IN  /\ Len(kept) = 20
              /\ \E k \in 1..Len(question_df) :
                    AnsweredCorrectly(student_id, question_df[k].id)
              /\ \E k \in LeftOut(student_id) :
                    \A i \in 1..Len(kept) :
                        kept[i].recommendation_score > ScoreOf(student_id, k)


\* C13: the difficulty trainer builds one feature row per response row, in order,
\* and the row's perceived_difficulty is 1 exactly when the response is incorrect
\* or took more than 30 seconds, and 0 otherwise
DifficultyRan ==
    \/ pc = "difficulty_returned"
    \/ pc = "crashed" /\ raised.line \in {424, 428, 458}

C13_PerceivedDifficultyLabel ==
    DifficultyRan =>
        /\ Len(trained.features) = Len(response_df)
        /\ \A i \in 1..Len(response_df) :
              trained.features[i].perceived_difficulty =
                  IF response_df[i].is_correct = 0 \/ response_df[i].response_time > 30000
                  THEN 1000 ELSE 0

\* a table with a correct answer given in exactly 30 seconds (label 0) and an
\* incorrect one (label 1)
C13_Witness ==
    /\ DifficultyRan
    /\ \E i, j \in 1..Len(response_df) :
          /\ response_df[i].is_correct = 1
          /\ response_df[i].response_time = 30000
          /\ trained.features[i].perceived_difficulty = 0
          /\ response_df[j].is_correct = 0
          /\ trained.features[j].perceived_difficulty = 1000


\* C14: every component of the subject-preference vector of every generated
\* response row lies in [0,1]
C14_PrefsOnUnitScale ==
    \A i \in 1..Len(runs) : \A r \in 1..Len(runs[i].response_df) :
        \A j \in 1..5 : InRange(SubjectPrefs(runs[i].response_df[r])[j])


\* C15: a run of update_geometry_images.py gives every Geometry question that has
\* a content object an imageData equal to its id, counts exactly those questions,
\* and leaves every other question, every other field and the order of the
\* questions as they were; a second run leaves the bank as the first wrote it
SameButImageData(old, new) ==
    /\ DOMAIN new = DOMAIN old
    /\ \A key \in DOMAIN old \ {"content"} : new[key] = old[key]
    /\ DOMAIN new.content = DOMAIN old.content \cup {"imageData"}
    /\ \A key \in DOMAIN old.content \ {"imageData"} : new.content[key] = old.content[key]

C15_GeometryImagesUpdated ==
    [][(pc \in {"start", "updated"} /\ pc' # pc)
         => LET old == file.data.questions
                new == file'.data.questions
            IN  /\ file'.kind = file.kind
                /\ DOMAIN file'.data = DOMAIN file.data
                /\ file'.data.version = file.data.version
                /\ Len(new) = Len(old)
                /\ \A i \in 1..Len(old) :
                      IF old[i].subject = "Geometry" /\ "content" \in DOMAIN old[i]
                      THEN /\ new[i].content.imageData = new[i].id
                           /\ SameButImageData(old[i], new[i])
                      ELSE new[i] = old[i]
                /\ counts'.updated_count =
                       Cardinality({ i \in 1..Len(old) :
                           old[i].subject = "Geometry" /\ "content" \in DOMAIN old[i] })
                /\ pc = "updated" => (file' = file /\ counts' = counts)]_vars

\* the bank after two runs: a Geometry question whose imageData is its id, counted
\* once, beside a question of another subject whose imageData is not its id
C15_Witness ==
    /\ pc = "updated_again"
    /\ counts.updated_count = 1
    /\ \E i, j \in 1..Len(file.data.questions) :
          LET q == file.data.questions
          IN  /\ q[i].subject = "Geometry"
              /\ "content" \in DOMAIN q[i]
              /\ q[i].content.imageData = q[i].id
              /\ q[j].subject # "Geometry"
              /\ "content" \in DOMAIN q[j]
              /\ "imageData" \in DOMAIN q[j].content
              /\ q[j].content.imageData # q[j].id


====
